---- MODULE Spec2Model ----
(***************************************************************************)
(* The voxel world engine of tfblockeditor (src/src/voxels.rs): a sparse   *)
(* grid of cells with a closure-based undo log, commit boundaries,         *)
(* symmetry mirroring and per-column shifts, together with the entities    *)
(* it spawns and despawns in the renderer.                                 *)
(*                                                                         *)
(* The undo closures are modelled as tagged records (kind "reinsert",      *)
(* "delete", "unshift") holding exactly what each closure captures, and    *)
(* apply_undo is the body of the closure of that kind.                     *)
(***************************************************************************)
EXTENDS Integers, Sequences, FiniteSets, TLC

VARIABLES
    symmetry,             \* Voxels::symmetry
    voxel_fill,           \* Voxels::voxel_fill : IVec3 -> VoxelInfo
    column_shift,         \* Voxels::column_shift : IVec2 -> i32
    undo_log,             \* Voxels::undo_log
    undo_commit_indexes,  \* Voxels::undo_commit_indexes
    entities,             \* the entities spawned through Commands and not despawned
    despawn_missing,      \* number of despawn commands issued for an entity that is not alive
    last_call,            \* history: the last public call, its arguments and its result
    seq_start,            \* history: cells and shifts at the last new_empty / commit / undo
    not_undone,           \* history: the snapshots passed to commit_changes and not yet undone
    buildings,            \* EditorWorld::buildings
    editor_tool,          \* EditorWorld::editor_tool
    points,               \* editor_insert_building_system: Local<Vec<IVec2>>
    dragging,             \* move_building_system: Local<Option<DraggingState>>
    panicked,             \* a system of the editor has panicked
    last_frame,           \* history: the input of the last frame and what it did
    probe,                \* a call of a function on its own: arguments and outcome
    previewer,            \* a Previewer<K>: epoch and cache
    preview_log           \* history: the entities the render closures spawned, the
                          \* despawn commands issued for them, and the last call

vars == <<symmetry, voxel_fill, column_shift, undo_log, undo_commit_indexes,
          entities, despawn_missing, last_call, seq_start, not_undone,
          buildings, editor_tool, points, dragging, panicked, last_frame, probe,
          previewer, preview_log>>

----------------------------------------------------------------------------
\* Bounds of the model.

\* the longest undo log a call may leave behind
MaxLog == 2
\* the deepest stack of commit boundaries
MaxCommits == 2
\* the most entities alive that no cell holds a handle of
MaxLeaked == 1
\* the most points of an outline being drawn
MaxPoints == 4
\* the most points of an outline a function is called with
MaxOutline == 4
\* the largest coordinate, in units, of a point a hull is made from
MaxCoordinate == 4
\* the most entities the render closures spawn
MaxRendered == 3
\* the most calls of collect_garbage
MaxEpoch == 3

----------------------------------------------------------------------------
\* Values.

\* IVec3::ZERO
ZERO == <<0, 0, 0>>

\* the grid coordinates the calls are made with: the origin, a second cell of
\* the centre column, and two cells off the centre column that Rotation maps
\* to each other and MirrorX maps to themselves
Coords == {<<0, 0, 0>>, <<0, 1, 0>>, <<0, 0, 1>>, <<0, 0, -1>>}

\* IVec3::xz
xz(voxel) == <<voxel[1], voxel[3]>>

Columns == {xz(c) : c \in Coords}

\* the material handles of Common used for cells
Materials == {"gray_material", "red_material", "blue_material"}

\* the values of `by` the calls are made with
Deltas == {-1, 1}

\* values of `by` up to the size of a cell and up to the width of an i32
WideDeltas == {-1073741824, -64, 64, 1073741824}

\* pub const VOXEL_SIZE: f32 = 128.0
VOXEL_SIZE == 128

\* i32::MAX, i32::MIN
i32_MAX == 2147483647
i32_MIN == -2147483647 - 1

\* i32 `+=` and `-=` as the optimised build computes them: the sum modulo 2^32
\* (the unoptimised build panics on the inputs that wrap). The cases keep every
\* intermediate value inside the i32 range.
i32_add(a, b) ==
    IF b > 0 /\ a > i32_MAX - b THEN (a + i32_MIN) + (b + i32_MIN)
    ELSE IF b < 0 /\ a < i32_MIN - b THEN (a - i32_MIN) + (b - i32_MIN)
    ELSE a + b
i32_sub(a, b) ==
    IF b < 0 /\ a > i32_MAX + b THEN (a + i32_MIN) - (b - i32_MIN)
    ELSE IF b > 0 /\ a < i32_MIN + b THEN (a - i32_MIN) - (b + i32_MIN)
    ELSE a - b

SymmetryKind == {"None", "Rotation", "MirrorX"}

\* Option<T>
None == <<>>
Some(x) == <<x>>

\* CommittedEditorState
EMPTY_EDITOR_STATE == [selection |-> <<>>]
EditorStates == {[selection |-> <<"face_a">>], [selection |-> <<"face_b">>]}

\* HashMap::new, HashMap::insert, HashMap::remove
EmptyMap == [k \in {} |-> 0]
MapInsert(map, k, v) == [x \in (DOMAIN map) \cup {k} |-> IF x = k THEN v ELSE map[x]]
MapRemove(map, k) == [x \in (DOMAIN map) \ {k} |-> map[x]]

\* Voxels::column_shift. Every read of the map takes a missing column as 0
\* (`get(..).unwrap_or(0)`, `entry(..).or_default()`), so the map is modelled
\* as the total function it is read as: HashMap::new() is the zero function.
NoShift == [column \in Columns |-> 0]
shift_of(shift, column) == shift[column]

\* The engine's data while a call runs: the fields a call may change, the
\* renderer's entities, and two history counters (muts: the physical mutations
\* of the maps made by the call; applied: the undo entries applied by the call).
World(fill, shift, log, ents, missing) ==
    [voxel_fill |-> fill, column_shift |-> shift, undo_log |-> log,
     entities |-> ents, despawn_missing |-> missing, muts |-> 0, applied |-> <<>>]

----------------------------------------------------------------------------
\* The renderer: Commands::spawn and EntityCommands::despawn.

\* commands.entity(e).despawn()
despawn(w, e) ==
    [w EXCEPT !.entities = @ \ {e},
              !.despawn_missing = IF e \in w.entities THEN @ ELSE @ + 1]

\* The handles the cells of w hold.
Handles(w) ==
    {w.voxel_fill[c].rendered[1] : c \in {d \in DOMAIN w.voxel_fill : w.voxel_fill[d].rendered # None}}

\* commands.spawn((VoxelMarker(voxel), Transform, Mesh3d, MeshMaterial3d)).id():
\* an entity that is neither alive nor referenced. Entity ids are opaque, so
\* the new one is named by its VoxelMarker and the least serial that makes it
\* new.
spawn(w, voxel) ==
    LET used == w.entities \cup Handles(w)
        new(n) == [marker |-> voxel, serial |-> n]
        free(n) == \A e \in used : ~(e.marker = voxel /\ e.serial = n)
        serial == CHOOSE n \in 0..Cardinality(used) :
                      free(n) /\ \A m \in 0..(n - 1) : ~free(m)
    IN new(serial)

----------------------------------------------------------------------------
\* Voxels.

\* the three kinds of closure handed to add_undo_log
Reinsert(voxel, voxel_info) ==
    [kind |-> "reinsert", voxel |-> voxel, voxel_info |-> voxel_info, column |-> <<0, 0>>, by |-> 0]
Delete(voxel) ==
    [kind |-> "delete", voxel |-> voxel, voxel_info |-> None, column |-> <<0, 0>>, by |-> 0]
Unshift(column, by) ==
    [kind |-> "unshift", voxel |-> ZERO, voxel_info |-> None, column |-> column, by |-> by]

add_undo_log(w, f) == [w EXCEPT !.undo_log = Append(@, f)]

apply_symmetry(sym, voxel) ==
    IF xz(voxel) = <<0, 0>>
    THEN None
    ELSE CASE sym = "None" -> None
           [] sym = "Rotation" -> Some(<<-voxel[1], voxel[2], -voxel[3]>>)
           [] sym = "MirrorX" -> Some(<<-voxel[1], voxel[2], voxel[3]>>)

redraw_voxel(w, voxel) ==
    IF voxel \notin DOMAIN w.voxel_fill
    THEN w
    ELSE LET voxel_info == w.voxel_fill[voxel]
             w1 == IF voxel_info.rendered # None
                   THEN despawn([w EXCEPT !.voxel_fill[voxel].rendered = None],
                                voxel_info.rendered[1])
                   ELSE w
             rendered == spawn(w1, voxel)
         IN [w1 EXCEPT !.entities = @ \cup {rendered},
                       !.voxel_fill[voxel].rendered = Some(rendered)]

\* the loops `for voxel in ...filter(|v| v.xz() == column)... { redraw_voxel }`
RECURSIVE redraw_all(_, _)
redraw_all(w, voxels) ==
    IF voxels = {}
    THEN w
    ELSE LET voxel == CHOOSE v \in voxels : TRUE
         IN redraw_all(redraw_voxel(w, voxel), voxels \ {voxel})

redraw_column(w, column) ==
    redraw_all(w, {v \in DOMAIN w.voxel_fill : xz(v) = column})

\* remove_voxel_internal without the early return at the origin
remove_voxel_internal_unprotected(w, voxel) ==
    IF voxel \notin DOMAIN w.voxel_fill
    THEN w
    ELSE LET voxel_info == w.voxel_fill[voxel]
             rendered_entity == voxel_info.rendered
             w1 == [w EXCEPT !.voxel_fill = MapRemove(@, voxel), !.muts = @ + 1]
             w2 == add_undo_log(w1, Reinsert(voxel, [voxel_info EXCEPT !.rendered = None]))
         IN IF rendered_entity # None THEN despawn(w2, rendered_entity[1]) ELSE w2

remove_voxel_internal(w, voxel) ==
    IF voxel = ZERO
    THEN w
    ELSE IF voxel \notin DOMAIN w.voxel_fill
    THEN w
    ELSE LET voxel_info == w.voxel_fill[voxel]
             rendered_entity == voxel_info.rendered
             w1 == [w EXCEPT !.voxel_fill = MapRemove(@, voxel), !.muts = @ + 1]
             w2 == add_undo_log(w1, Reinsert(voxel, [voxel_info EXCEPT !.rendered = None]))
         IN IF rendered_entity # None THEN despawn(w2, rendered_entity[1]) ELSE w2

remove_voxel(sym, w, voxel) ==
    LET w1 == remove_voxel_internal(w, voxel)
        mirrored == apply_symmetry(sym, voxel)
    IN IF mirrored # None THEN remove_voxel_internal(w1, mirrored[1]) ELSE w1

\* HashMap::insert drops the value it replaces: an insert over a present cell
\* is the removal of that cell and the insertion of the new one.
add_voxel_internal(w, voxel, mat) ==
    LET w1 == remove_voxel_internal(w, voxel)
        replaced == voxel \in DOMAIN w1.voxel_fill
        w2 == [w1 EXCEPT !.voxel_fill = MapInsert(@, voxel, [material |-> mat, rendered |-> None]),
                         !.muts = @ + (IF replaced THEN 2 ELSE 1)]
        w3 == redraw_voxel(w2, voxel)
    IN add_undo_log(w3, Delete(voxel))

\* complement_material without the swap of red and blue
complement_material_same(mat) == mat

complement_material(mat) ==
    IF mat = "red_material" THEN "blue_material"
    ELSE IF mat = "blue_material" THEN "red_material"
    ELSE mat

add_voxel(sym, w, voxel, mat) ==
    LET w1 == add_voxel_internal(w, voxel, mat)
        mirrored == apply_symmetry(sym, voxel)
    IN IF mirrored # None
       THEN add_voxel_internal(w1, mirrored[1], complement_material(mat))
       ELSE w1

shift_column_internal(w, column, by) ==
    LET w1 == [w EXCEPT !.column_shift = MapInsert(@, column, i32_add(shift_of(@, column), by)),
                        !.muts = @ + 1]
        w2 == add_undo_log(w1, Unshift(column, by))
    IN redraw_column(w2, column)

\* shift_column without the shift of the symmetric column
shift_column_unmirrored(sym, w, column, by) ==
    shift_column_internal(w, column, by)

shift_column(sym, w, column, by) ==
    LET w1 == shift_column_internal(w, column, by)
        symmetric_voxel == apply_symmetry(sym, <<column[1], 0, column[2]>>)
    IN IF symmetric_voxel # None
       THEN shift_column_internal(w1, xz(symmetric_voxel[1]), by)
       ELSE w1

has_voxel(fill, voxel) == voxel \in DOMAIN fill

get_material(fill, voxel) ==
    IF voxel \in DOMAIN fill THEN Some(fill[voxel].material) ELSE None

has_changes_to_commit(commits, log) ==
    IF commits # <<>>
    THEN commits[Len(commits)].index # Len(log)
    ELSE TRUE

commit_changes(commits, log, editor_state) ==
    Append(commits, [index |-> Len(log), state |-> editor_state])

\* the bodies of the undo closures
apply_undo(w, f) ==
    CASE f.kind = "reinsert" ->
           redraw_voxel([w EXCEPT !.voxel_fill = MapInsert(@, f.voxel, f.voxel_info)], f.voxel)
      [] f.kind = "delete" ->
           IF f.voxel \notin DOMAIN w.voxel_fill
           THEN w
           ELSE LET voxel_info == w.voxel_fill[f.voxel]
                    w1 == [w EXCEPT !.voxel_fill = MapRemove(@, f.voxel)]
                IN IF voxel_info.rendered # None
                   THEN despawn(w1, voxel_info.rendered[1])
                   ELSE w1
      [] f.kind = "unshift" ->
           redraw_column(
               [w EXCEPT !.column_shift = MapInsert(@, f.column, i32_sub(shift_of(@, f.column), f.by))],
               f.column)

\* last_editor_state taking the oldest boundary instead of the newest
last_editor_state_oldest(commits) ==
    IF commits # <<>> THEN commits[1].state ELSE EMPTY_EDITOR_STATE

\* undo_last_action: the snapshot it returns
last_editor_state(commits) ==
    IF commits # <<>> THEN commits[Len(commits)].state ELSE EMPTY_EDITOR_STATE

\* undo_last_action: self.undo_commit_indexes.pop()
pop_commit(commits) ==
    IF commits # <<>> THEN SubSeq(commits, 1, Len(commits) - 1) ELSE commits

\* undo_until ignoring the boundary left on top of the stack
undo_until_start(commits) == 0

\* undo_until read before the pop: the index of the boundary being popped
undo_until_popped(commits) ==
    IF undo_commit_indexes # <<>>
    THEN undo_commit_indexes[Len(undo_commit_indexes)].index
    ELSE 0

\* undo_last_action: the log length to roll back to, read after the pop
undo_until(commits) ==
    IF commits # <<>> THEN commits[Len(commits)].index ELSE 0

\* undo_last_action: while self.undo_log.len() > undo_until { pop and call }
RECURSIVE undo_loop(_, _)
undo_loop(w, until) ==
    IF Len(w.undo_log) > until
    THEN LET undo_func == w.undo_log[Len(w.undo_log)]
             w1 == [w EXCEPT !.undo_log = SubSeq(@, 1, Len(@) - 1),
                             !.applied = Append(@, undo_func)]
         IN undo_loop(apply_undo(w1, undo_func), until)
    ELSE w

----------------------------------------------------------------------------
\* Geometry (src/src/geometry_utils.rs) and buildings (src/src/building.rs).
\*
\* Points are IVec2, pairs of integers. The f32 computations are carried out
\* in exact arithmetic: every comparison of the source is the comparison of
\* the exact values, written without division. On the grid below the f32
\* operations give the same answers, the closest values to a threshold being
\* 0.447 against MIN_INTERIOR_THICKNESS and a cosine of 0.832 against the
\* corner limit of 0.846. NaN, which the source gets from normalising a zero
\* vector, fails every comparison, as it does in f32.

\* the grid coordinates the mouse picks and the outlines are made of
Grid == (0..2) \X (0..2)

\* IVec2 - IVec2, Vec2::dot, Vec2::perp_dot, Vec2::length_squared
sub2(p, q) == <<p[1] - q[1], p[2] - q[2]>>
dot(u, v) == u[1] * v[1] + u[2] * v[2]
perp_dot(u, v) == u[1] * v[2] - u[2] * v[1]
length_squared(u) == dot(u, u)

\* the constants of building.rs, as fractions <<numerator, denominator>>
BUILDING_WALL_THICKNESS == <<1, 8>>
MIN_EXTENDED == <<9, 20>>
MIN_INTERIOR_THICKNESS == <<1, 2>>

RECURSIVE gcd(_, _)
gcd(m, n) == IF n = 0 THEN m ELSE gcd(n, m % n)

\* BUILDING_WALL_THICKNESS / MIN_EXTENDED in lowest terms: the largest
\* sin(angle / 2) of a corner that is too sharp
sharp_sin ==
    LET n == BUILDING_WALL_THICKNESS[1] * MIN_EXTENDED[2]
        d == BUILDING_WALL_THICKNESS[2] * MIN_EXTENDED[1]
    IN <<n \div gcd(n, d), d \div gcd(n, d)>>

Corner(a, pivot, b) == [a |-> a, pivot |-> pivot, b |-> b]

\* is_corner_too_sharp: BUILDING_WALL_THICKNESS / sin(angle / 2) >= MIN_EXTENDED
\* where angle = acos of the dot product of the two normalised arms. With
\* sin(angle / 2)^2 = (1 - cos(angle)) / 2 this is
\*     cos(angle) >= 1 - 2 * sharp_sin^2,
\* and angle = 0 gives a division by zero, +inf, which is >= MIN_EXTENDED. An
\* arm of length zero normalises to NaN and the comparison fails.
is_corner_too_sharp(corner) ==
    LET u == sub2(corner.a, corner.pivot)
        v == sub2(corner.b, corner.pivot)
        n == sharp_sin[1]
        d == sharp_sin[2]
        limit == d * d - 2 * n * n
    IN /\ u # <<0, 0>>
       /\ v # <<0, 0>>
       /\ dot(u, v) > 0
       /\ dot(u, v) * dot(u, v) * d * d * d * d
              >= limit * limit * length_squared(u) * length_squared(v)

\* signed_polygon_area_2d without the edge from the last point to the first
signed_polygon_area_2d_open(pts) ==
    LET len == Len(pts)
        term(i) == (pts[i][2] + pts[i + 1][2]) * (pts[i][1] - pts[i + 1][1])
        sum[i \in 0..(len - 1)] == IF i = 0 THEN 0 ELSE sum[i - 1] + term(i)
    IN IF len <= 2 THEN <<0, 2>> ELSE <<sum[len - 1], 2>>

\* signed_polygon_area_2d, as the fraction sum / 2
signed_polygon_area_2d(pts) ==
    LET len == Len(pts)
        term(i) == LET j == (i % len) + 1
                   IN (pts[i][2] + pts[j][2]) * (pts[i][1] - pts[j][1])
        sum[i \in 0..len] == IF i = 0 THEN 0 ELSE sum[i - 1] + term(i)
    IN IF len <= 2 THEN <<0, 2>> ELSE <<sum[len], 2>>

\* point_closest_to_segment(p, line).distance(p) < MIN_INTERIOR_THICKNESS:
\* the projection of p on the line is clamped to the segment (t.clamp(0, 1))
\* and the squared distance from p to that point is compared with the squared
\* limit. A segment of length zero has no direction: normalize gives NaN, the
\* distance is NaN and the comparison fails.
closer_than_MIN_INTERIOR_THICKNESS(p, line) ==
    LET d == sub2(line[2], line[1])
        t == dot(sub2(p, line[1]), d)
        m == MIN_INTERIOR_THICKNESS
        below(num, den) == num * m[2] * m[2] < den * m[1] * m[1]
    IN /\ d # <<0, 0>>
       /\ IF t <= 0 THEN below(length_squared(sub2(p, line[1])), 1)
          ELSE IF t >= length_squared(d) THEN below(length_squared(sub2(p, line[2])), 1)
          ELSE below(perp_dot(d, sub2(p, line[1])) * perp_dot(d, sub2(p, line[1])),
                     length_squared(d))

\* (0.0..=1.0).contains(&(num / rxs)) for rxs # 0
in_unit_interval(num, rxs) ==
    IF rxs > 0 THEN 0 <= num /\ num <= rxs ELSE rxs <= num /\ num <= 0

\* segments_cross with open ends: touching segments do not cross
segments_cross_open(a, b) ==
    LET r == sub2(a[2], a[1])
        s == sub2(b[2], b[1])
        pq == sub2(b[1], a[1])
        rxs == perp_dot(r, s)
        inside(num) == IF rxs > 0 THEN 0 < num /\ num < rxs ELSE rxs < num /\ num < 0
    IN IF rxs = 0 THEN FALSE ELSE inside(perp_dot(pq, s)) /\ inside(perp_dot(pq, r))

\* segments_cross looking at the parameter of the first segment only
segments_cross_first(a, b) ==
    LET r == sub2(a[2], a[1])
        s == sub2(b[2], b[1])
        pq == sub2(b[1], a[1])
        rxs == perp_dot(r, s)
    IN IF rxs = 0 THEN FALSE ELSE in_unit_interval(perp_dot(pq, s), rxs)

segments_cross(a, b) ==
    LET r == sub2(a[2], a[1])
        s == sub2(b[2], b[1])
        pq == sub2(b[1], a[1])
        rxs == perp_dot(r, s)
    IN IF rxs = 0
       THEN FALSE
       ELSE /\ in_unit_interval(perp_dot(pq, s), rxs)
            /\ in_unit_interval(perp_dot(pq, r), rxs)

\* Building { floor_y, outline }
Building(floor_y, outline) == [floor_y |-> floor_y, outline |-> outline]

\* BuildingValidity and BuildingValidity::default()
BuildingValidity(allow_one_point, allow_two_points) ==
    [allow_one_point |-> allow_one_point, allow_two_points |-> allow_two_points]
BuildingValidity_default == BuildingValidity(FALSE, FALSE)

\* the outcome of a call that may panic
Panic == [panicked |-> TRUE, value |-> None]
Return(x) == [panicked |-> FALSE, value |-> Some(x)]

\* outline.iter().copied().collect::<HashSet<_>>()
PointSet(outline) == {outline[i] : i \in 1..Len(outline)}

\* Building::new without the assertion on duplicate points
Building_new_unchecked_duplicates(floor_y, outline) ==
    IF ~(Len(outline) >= 3) THEN Panic ELSE Return(Building(floor_y, outline))

\* Building::new: the two assertions, then Self { floor_y, outline }
Building_new(floor_y, outline) ==
    IF ~(Len(outline) >= 3) THEN Panic
    ELSE IF ~(Cardinality(PointSet(outline)) = Len(outline)) THEN Panic
    ELSE Return(Building(floor_y, outline))

\* the loops of is_valid, each one true when it reaches a `return false`.
\* Indexes are those of the source, counted from 0: at(i) is outline[i % len].
some_corner_too_sharp(outline) ==
    LET len == Len(outline)
        at(i) == outline[(i % len) + 1]
    IN \E pivot_index \in 0..(len - 1) :
           is_corner_too_sharp(Corner(at(pivot_index + len - 1), at(pivot_index),
                                      at(pivot_index + 1)))

some_points_equal(outline) ==
    \E i \in 1..Len(outline) : \E j \in 1..(i - 1) : outline[i] = outline[j]

some_point_near_segment(outline) ==
    LET len == Len(outline)
        at(i) == outline[(i % len) + 1]
    IN \E k \in 0..(len - 1) : \E i \in 0..(len - 1) :
           LET p == at(k)
               a == at(i)
               b == at(i + 1)
           IN /\ ~(a = p \/ b = p)
              /\ closer_than_MIN_INTERIOR_THICKNESS(p, <<a, b>>)

some_segments_cross(pts) ==
    LET len == Len(pts)
        at(i) == pts[(i % len) + 1]
    IN \E i \in 0..(len - 1) : \E j \in 0..(len - 1) :
           LET a1 == at(i)
               b1 == at(i + 1)
               a2 == at(j)
               b2 == at(j + 1)
           IN /\ ~(a1 = a2 \/ a1 = b2 \/ b1 = a2 \/ b1 = b2)
              /\ segments_cross(<<a1, b1>>, <<a2, b2>>)

\* is_valid without the test of the signed area
is_valid_any_orientation(self, options) ==
    LET len == Len(self.outline)
    IN IF len = 1 /\ ~options.allow_one_point THEN FALSE
       ELSE IF len = 2 /\ ~options.allow_two_points THEN FALSE
       ELSE IF len >= 3 /\ some_corner_too_sharp(self.outline) THEN FALSE
       ELSE IF some_points_equal(self.outline) THEN FALSE
       ELSE IF some_point_near_segment(self.outline) THEN FALSE
       ELSE IF some_segments_cross(self.outline) THEN FALSE
       ELSE TRUE

\* is_valid without the test of the crossing segments
is_valid_crossing_allowed(self, options) ==
    LET len == Len(self.outline)
    IN IF len = 1 /\ ~options.allow_one_point THEN FALSE
       ELSE IF len = 2 /\ ~options.allow_two_points THEN FALSE
       ELSE IF len >= 3 /\ some_corner_too_sharp(self.outline) THEN FALSE
       ELSE IF some_points_equal(self.outline) THEN FALSE
       ELSE IF some_point_near_segment(self.outline) THEN FALSE
       ELSE IF signed_polygon_area_2d(self.outline)[1] <= 0 THEN FALSE
       ELSE TRUE

\* Building::is_valid: the early returns in the order of the source
is_valid(self, options) ==
    LET len == Len(self.outline)
    IN IF len = 1 /\ ~options.allow_one_point THEN FALSE
       ELSE IF len = 2 /\ ~options.allow_two_points THEN FALSE
       ELSE IF len >= 3 /\ some_corner_too_sharp(self.outline) THEN FALSE
       ELSE IF some_points_equal(self.outline) THEN FALSE
       ELSE IF some_point_near_segment(self.outline) THEN FALSE
       ELSE IF some_segments_cross(self.outline) THEN FALSE
       ELSE IF signed_polygon_area_2d(self.outline)[1] <= 0 THEN FALSE
       ELSE TRUE

----------------------------------------------------------------------------
\* The editor (src/src/editor_state.rs, src/src/editor_actions.rs).

\* EditorWorld together with the Local state of the two tool systems, while a
\* frame runs. Indexes of buildings and points count from 1 here and from 0 in
\* the source.
Editor(blds, tool, pts, drag, dead) ==
    [buildings |-> blds, editor_tool |-> tool, points |-> pts, dragging |-> drag,
     panicked |-> dead]

\* EditorWorld::new and the Default of the Locals
EditorWorld_new == Editor(<<>>, "SelectBuilding", <<>>, None, FALSE)

DraggingState(building_index, point_index) ==
    [building_index |-> building_index, point_index |-> point_index]

\* the input of one frame: the keys just pressed, the grid cell under the
\* mouse if pick_grid finds one, and the state of the left mouse button. A
\* frame with several of the keys does what a frame with one of them does
\* (Digit2 wins over Digit1; Escape is read by the create tool only and the
\* points are already cleared when the tool was not the create tool), so the
\* frames drawn have at most one key.
Keys == {"Digit1", "Digit2", "Escape"}
\* the grid cells the mouse picks
MouseCells == (0..2) \X (0..1)
Inputs ==
    [keys : {{}} \cup {{k} : k \in Keys}, mouse : {None} \cup {Some(g) : g \in MouseCells},
     just_pressed : BOOLEAN, pressed : BOOLEAN]

\* EditorWorld::insert_building
insert_building(e, building) == [e EXCEPT !.buildings = Append(@, building)]

\* set_building_point without the assertion
set_building_point_unasserted(blds, building, point, p) ==
    Return([blds EXCEPT ![building].outline[point] = p])

\* EditorWorld::set_building_point: the assignment, then the assertion
set_building_point(blds, building, point, p) ==
    LET changed == [blds EXCEPT ![building].outline[point] = p]
    IN IF is_valid(changed[building], BuildingValidity_default)
       THEN Return(changed)
       ELSE Panic

switch_tool_system(e, in) ==
    LET e1 == IF "Digit1" \in in.keys THEN [e EXCEPT !.editor_tool = "SelectBuilding"] ELSE e
    IN IF "Digit2" \in in.keys THEN [e1 EXCEPT !.editor_tool = "CreateBuilding"] ELSE e1

\* move_building_system up to the search for the point under the mouse: the
\* drag that is in effect when the system looks at `dragging.as_ref()`
grab(e, in) ==
    LET released == IF e.dragging # None /\ ~in.pressed THEN None ELSE e.dragging
        at_mouse(i) == {j \in 1..Len(e.buildings[i].outline) :
                           e.buildings[i].outline[j] = in.mouse[1]}
        hits == UNION {{DraggingState(i, j) : j \in at_mouse(i)} : i \in 1..Len(e.buildings)}
        \* the loops overwrite `dragging` at each hit, so the last hit is kept
        last == CHOOSE d \in hits : \A o \in hits :
                    \/ o.building_index < d.building_index
                    \/ o.building_index = d.building_index /\ o.point_index <= d.point_index
    IN IF in.just_pressed /\ hits # {} THEN Some(last) ELSE released

\* the outline the drag in effect asks for
dragged(building, dragging_state, mouse_point) ==
    [building EXCEPT !.outline[dragging_state.point_index] = mouse_point]

\* move_point without the call of is_valid before set_building_point
move_point_unchecked(e, dragging_state, mouse_point) ==
    LET building == e.buildings[dragging_state.building_index]
    IN IF building.outline[dragging_state.point_index] = mouse_point
       THEN e
       ELSE LET set == set_building_point(e.buildings, dragging_state.building_index,
                                          dragging_state.point_index, mouse_point)
            IN IF set.panicked
               THEN [e EXCEPT !.panicked = TRUE]
               ELSE [e EXCEPT !.buildings = set.value[1]]

\* move_building_system from `if let Some(dragging_state) = dragging.as_ref()`
move_point(e, dragging_state, mouse_point) ==
    LET building == e.buildings[dragging_state.building_index]
    IN IF building.outline[dragging_state.point_index] = mouse_point
       THEN e
       ELSE IF ~is_valid(dragged(building, dragging_state, mouse_point),
                         BuildingValidity_default)
       THEN e
       ELSE LET set == set_building_point(e.buildings, dragging_state.building_index,
                                          dragging_state.point_index, mouse_point)
            IN IF set.panicked
               THEN [e EXCEPT !.panicked = TRUE]
               ELSE [e EXCEPT !.buildings = set.value[1]]

move_grabbed(e, drag, in) ==
    IF drag = None
    THEN [e EXCEPT !.dragging = None]
    ELSE move_point([e EXCEPT !.dragging = drag], drag[1], in.mouse[1])

move_building_system(e, in) ==
    IF e.editor_tool # "SelectBuilding" THEN [e EXCEPT !.dragging = None]
    ELSE IF in.mouse = None
    THEN [e EXCEPT !.dragging = IF @ # None /\ ~in.pressed THEN None ELSE @]
    ELSE move_grabbed(e, grab(e, in), in)

\* Vec::contains, Vec::reverse
contains(pts, x) == \E i \in 1..Len(pts) : pts[i] = x
reverse(pts) == [i \in 1..Len(pts) |-> pts[Len(pts) + 1 - i]]

\* the closure new_point_is_valid of editor_insert_building_system; at(i) is
\* points[i] of the source
new_point_is_valid(pts, mouse_point_grid) ==
    LET len == Len(pts)
        at(i) == pts[i + 1]
        mouse == mouse_point_grid[1]
        new_line == <<at(len - 1), mouse>>
    IN IF mouse_point_grid = None THEN FALSE
       ELSE IF len <= 1 THEN TRUE
       ELSE IF len = 2 /\ mouse = at(0) THEN FALSE
       ELSE IF /\ len >= 3 /\ mouse = at(0)
               /\ is_corner_too_sharp(Corner(at(1), at(0), at(len - 1)))
       THEN FALSE
       ELSE IF mouse # at(0) /\ contains(pts, mouse) THEN FALSE
       ELSE IF \E k \in 0..(len - 1) :
                  /\ ~(at(k) = new_line[1] \/ at(k) = new_line[2])
                  /\ closer_than_MIN_INTERIOR_THICKNESS(at(k), new_line)
       THEN FALSE
       ELSE IF \E i \in 0..(len - 2) :
                  /\ ~(at(i) = mouse \/ at(i + 1) = mouse)
                  /\ \/ closer_than_MIN_INTERIOR_THICKNESS(mouse, <<at(i), at(i + 1)>>)
                     \/ /\ i + 2 < len
                        /\ segments_cross(<<at(i), at(i + 1)>>, new_line)
       THEN FALSE
       ELSE IF is_corner_too_sharp(Corner(at(len - 2), at(len - 1), mouse)) THEN FALSE
       ELSE TRUE

\* the closing of an outline without the reversal of a clockwise one
close_outline_as_drawn(editing_plane_y, pts) ==
    Building_new(editing_plane_y, pts)

\* the closing of an outline: std::mem::take, the reversal of an outline of
\* negative area, Building::new
close_outline(editing_plane_y, pts) ==
    Building_new(editing_plane_y,
                 IF signed_polygon_area_2d(pts)[1] < 0 THEN reverse(pts) ELSE pts)

\* the branches of `if mouse_button.just_pressed(MouseButton::Left)`
place_point(e, mouse, new_point_is_valid_) ==
    IF Len(e.points) >= 3 /\ mouse = e.points[1] /\ new_point_is_valid_
    THEN LET built == close_outline(0, e.points)
         IN IF built.panicked
            THEN [e EXCEPT !.points = <<>>, !.panicked = TRUE]
            ELSE insert_building([e EXCEPT !.points = <<>>], built.value[1])
    ELSE IF new_point_is_valid_
    THEN [e EXCEPT !.points = Append(@, mouse)]
    ELSE [e EXCEPT !.points = <<>>]

editor_insert_building_system(e, in) ==
    IF e.editor_tool # "CreateBuilding" THEN [e EXCEPT !.points = <<>>]
    ELSE LET e1 == IF "Escape" \in in.keys THEN [e EXCEPT !.points = <<>>] ELSE e
             valid == new_point_is_valid(e1.points, in.mouse)
         IN IF in.mouse # None /\ in.just_pressed
            THEN place_point(e1, in.mouse[1], valid)
            ELSE e1

\* one frame of Update: the systems of EditorActionPlugin run in a chain. A
\* panic in a system ends the frame and the program.
unless_panicked(e, in) ==
    IF e.panicked THEN e ELSE editor_insert_building_system(e, in)

frame(e, in) ==
    unless_panicked(move_building_system(switch_tool_system(e, in), in), in)

----------------------------------------------------------------------------
\* The half-space solids (src/src/csg.rs).
\*
\* The arithmetic is that of the real numbers, computed exactly: a coordinate
\* is a whole number of units, of which UnitsPerOne make 1.0; a point computed
\* by division is a fraction in lowest terms; a unit vector is kept as the
\* shortest integer vector of its direction; a distance is a number
\* num / sqrt(sq). The rounding of f32 is not modelled.

UnitsPerOne == 20000
\* const EPSILON: f32 = 0.0001, in units
EPSILON == 2

abs(x) == IF x < 0 THEN -x ELSE x
sub3(p, q) == <<p[1] - q[1], p[2] - q[2], p[3] - q[3]>>
add3(p, q) == <<p[1] + q[1], p[2] + q[2], p[3] + q[3]>>
scale3(k, v) == <<k * v[1], k * v[2], k * v[3]>>
neg3(v) == scale3(-1, v)
dot3(u, v) == u[1] * v[1] + u[2] * v[2] + u[3] * v[3]
cross3(u, v) ==
    <<u[2] * v[3] - u[3] * v[2], u[3] * v[1] - u[1] * v[3], u[1] * v[2] - u[2] * v[1]>>
length_squared3(v) == dot3(v, v)

\* Vec3::normalize of a vector that is not zero: the unit vector of its
\* direction, kept as the shortest integer vector of that direction
normalize(v) ==
    LET g == gcd(gcd(abs(v[1]), abs(v[2])), abs(v[3]))
    IN <<v[1] \div g, v[2] \div g, v[3] \div g>>

\* a point num / den, in lowest terms
Fraction(num, den) ==
    LET s == IF den < 0 THEN -1 ELSE 1
        g == gcd(gcd(gcd(abs(num[1]), abs(num[2])), abs(num[3])), abs(den))
    IN [num |-> <<(s * num[1]) \div g, (s * num[2]) \div g, (s * num[3]) \div g>>,
        den |-> abs(den) \div g]
Whole(p) == [num |-> p, den |-> 1]

\* the number num / sqrt(sq)
Real(num, sq) == [num |-> num, sq |-> sq]
Length(c) == Real(c, 1)
less(v, w) ==
    IF v.num < 0 /\ w.num >= 0 THEN TRUE
    ELSE IF v.num >= 0 /\ w.num < 0 THEN FALSE
    ELSE IF v.num >= 0 THEN v.num * v.num * w.sq < w.num * w.num * v.sq
    ELSE v.num * v.num * w.sq > w.num * w.num * v.sq
real_abs(v) == Real(abs(v.num), v.sq)

\* x < EPSILON for the x (a sine or a cosine, 0 <= x) whose square is n2 / d2
below_epsilon(n2, d2) ==
    n2 <= (EPSILON * EPSILON * d2 - 1) \div (UnitsPerOne * UnitsPerOne)

CuttingPlane(point, normal) == [point |-> point, normal |-> normal]
InfiniteLine(point, direction) == [point |-> point, direction |-> direction]

\* CuttingPlane::flipped
flipped(self) == CuttingPlane(self.point, neg3(self.normal))

\* CuttingPlane::signed_distance, of a point that may be a fraction
signed_distance(self, point) ==
    Real(dot3(sub3(point.num, scale3(point.den, self.point)), self.normal),
         point.den * point.den * length_squared3(self.normal))

\* CuttingPlane::from_triangle
from_triangle(pts) ==
    LET d1 == sub3(pts[2], pts[1])
        d2 == sub3(pts[3], pts[1])
        normal == cross3(d1, d2)
    IN IF length_squared3(d1) < EPSILON * EPSILON \/ length_squared3(d2) < EPSILON * EPSILON
       THEN None
       ELSE IF below_epsilon(length_squared3(normal), length_squared3(d1) * length_squared3(d2))
       THEN None
       ELSE Some(CuttingPlane(pts[1], normalize(normal)))

\* CuttingPlane::intersection_plane
intersection_plane(self, other) ==
    LET perp == cross3(self.normal, other.normal)
        intersection_point ==
            Fraction(cross3(sub3(scale3(dot3(other.normal, other.point), self.normal),
                                 scale3(dot3(self.normal, self.point), other.normal)),
                            neg3(perp)),
                     length_squared3(perp))
    IN IF below_epsilon(length_squared3(perp),
                        length_squared3(self.normal) * length_squared3(other.normal))
       THEN Return(None)
       ELSE IF \/ less(Length(EPSILON), real_abs(signed_distance(self, intersection_point)))
               \/ less(Length(EPSILON), real_abs(signed_distance(other, intersection_point)))
       THEN Panic
       ELSE Return(Some(InfiniteLine(intersection_point, normalize(perp))))

\* CuttingPlane::intersection_line
intersection_line(self, line) ==
    LET across == dot3(line.direction, self.normal)
        \* t * |direction|, times line.point.den
        t == dot3(sub3(scale3(line.point.den, self.point), line.point.num), self.normal)
        intersection ==
            Fraction(add3(scale3(across, line.point.num), scale3(t, line.direction)),
                     line.point.den * across)
    IN IF below_epsilon(across * across,
                        length_squared3(self.normal) * length_squared3(line.direction))
       THEN Return(None)
       ELSE IF ~less(real_abs(signed_distance(self, intersection)), Length(EPSILON))
       THEN Panic
       ELSE Return(Some(intersection))

ConvexHull(planes) == [planes |-> planes]

\* ConvexHull::signed_distance, of a hull with a plane: the largest of the
\* planes' distances
hull_signed_distance(self, point) ==
    LET distances == {signed_distance(self.planes[i], point) : i \in 1..Len(self.planes)}
    IN CHOOSE d \in distances : \A e \in distances : ~less(d, e)

\* the index triples of the nested loops, in the order the loops visit them
Triples(n) ==
    SelectSeq([k \in 1..(n * n * n) |->
                  <<((k - 1) \div (n * n)) + 1, (((k - 1) \div n) % n) + 1, ((k - 1) % n) + 1>>],
              LAMBDA t : t[3] < t[2] /\ t[2] < t[1])

\* the body of the loops of ConvexHull::vertices for one triple of planes
vertex_candidate(self, t) ==
    LET line == intersection_plane(self.planes[t[1]], self.planes[t[2]])
    IN IF line.panicked THEN Panic
       ELSE IF line.value[1] = None THEN Return(None)
       ELSE LET point == intersection_line(self.planes[t[3]], line.value[1][1])
            IN IF point.panicked THEN Panic
               ELSE IF point.value[1] = None THEN Return(None)
               ELSE IF less(real_abs(hull_signed_distance(self, point.value[1][1])),
                            Length(EPSILON))
               THEN Return(point.value[1])
               ELSE Return(None)

\* ConvexHull::vertices
vertices(self) ==
    LET triples == Triples(Len(self.planes))
        found == [k \in 1..Len(triples) |-> vertex_candidate(self, triples[k])]
    IN IF \E k \in 1..Len(found) : found[k].panicked
       THEN Panic
       ELSE Return([k \in 1..Len(SelectSeq(found, LAMBDA f : f.value[1] # None)) |->
                       SelectSeq(found, LAMBDA f : f.value[1] # None)[k].value[1][1]])

\* ConvexHull::simplify
simplify(self) ==
    LET found == vertices(self)
        touching(plane) ==
            Cardinality({k \in 1..Len(found.value[1]) :
                            ~less(Length(EPSILON),
                                  real_abs(signed_distance(plane, found.value[1][k])))})
        planes == SelectSeq(self.planes, LAMBDA plane : touching(plane) >= 3)
    IN IF found.panicked THEN Panic
       ELSE IF Len(planes) <= 3 THEN Return(None)
       ELSE Return(Some(ConvexHull(planes)))

\* the closure of retain_mut in ConvexHull::from_points: the plane kept, if any
supporting(plane, pts) ==
    LET under == \E i \in 1..Len(pts) :
                     less(signed_distance(plane, Whole(pts[i])), Length(-EPSILON))
        over == \E i \in 1..Len(pts) :
                    less(Length(EPSILON), signed_distance(plane, Whole(pts[i])))
    IN IF ~under /\ ~over THEN None
       ELSE IF under /\ over THEN None
       ELSE IF over THEN Some(flipped(plane))
       ELSE Some(plane)

\* ConvexHull::from_points
from_points(pts) ==
    LET triples == Triples(Len(pts))
        triangles == [k \in 1..Len(triples) |->
                         from_triangle(<<pts[triples[k][1]], pts[triples[k][2]],
                                         pts[triples[k][3]]>>)]
        planes == SelectSeq(triangles, LAMBDA plane : plane # None)
        retained == SelectSeq([k \in 1..Len(planes) |-> supporting(planes[k][1], pts)],
                              LAMBDA plane : plane # None)
    IN simplify(ConvexHull([k \in 1..Len(retained) |-> retained[k][1]]))

----------------------------------------------------------------------------
\* The previewer (src/src/preview.rs).

\* the keys render is called with
PreviewKeys == {"key_a", "key_b"}

PreviewState(epoch, entity) == [epoch |-> epoch, entity |-> entity]

\* Previewer::new
Previewer_new == [epoch |-> 0, cache |-> EmptyMap]

\* render running the closure and replacing the entry of a key already cached
Previewer_render_always(self, key, new_entity) ==
    [previewer |-> [self EXCEPT
                       !.cache = MapInsert(@, key, PreviewState(self.epoch + 1, new_entity))],
     ran |-> 1]

\* Previewer::render; new_entity is the entity the closure returns when it is
\* run, ran the number of times it was run
Previewer_render(self, key, new_entity) ==
    IF key \notin DOMAIN self.cache
    THEN [previewer |-> [self EXCEPT
                            !.cache = MapInsert(@, key,
                                                PreviewState(self.epoch + 1, new_entity))],
          ran |-> 1]
    ELSE [previewer |-> [self EXCEPT !.cache[key].epoch = self.epoch + 1],
          ran |-> 0]

\* collect_garbage keeping the entries of the epoch before as well
Previewer_collect_garbage_stale(self) ==
    LET keep_epoch == self.epoch + 1
        kept == {k \in DOMAIN self.cache : self.cache[k].epoch >= keep_epoch - 1}
    IN [previewer |-> [epoch |-> keep_epoch, cache |-> [k \in kept |-> self.cache[k]]],
        despawned |-> [k \in (DOMAIN self.cache) \ kept |-> self.cache[k].entity]]

\* Previewer::collect_garbage; despawned holds, for each entry that retain
\* drops, the entity of its despawn command
Previewer_collect_garbage(self) ==
    LET keep_epoch == self.epoch + 1
        kept == {k \in DOMAIN self.cache : self.cache[k].epoch = keep_epoch}
    IN [previewer |-> [epoch |-> keep_epoch, cache |-> [k \in kept |-> self.cache[k]]],
        despawned |-> [k \in (DOMAIN self.cache) \ kept |-> self.cache[k].entity]]

\* The previewer's state machine: a call of render with a closure that spawns
\* an entity (`commands.spawn(..).id()`), or a call of collect_garbage, which
\* is also what dropping a PreviewCollector does.

PreviewCall(op, key, ran, before, touched, despawned) ==
    [op |-> op, key |-> key, ran |-> ran, before |-> before, touched |-> touched,
     despawned |-> despawned]

InitPreviewer ==
    /\ previewer = Previewer_new
    /\ preview_log = [created |-> {}, despawns |-> EmptyMap, touched |-> {},
                      last |-> PreviewCall("new", None, 0, Previewer_new, {}, EmptyMap)]

PreviewUnchanged == UNCHANGED <<previewer, preview_log>>

\* the entity the next closure spawns: entities are opaque, so it is named by
\* the number of entities spawned before it
next_entity == Cardinality(preview_log.created)

Rendered(key, r) ==
    /\ r.ran = 1 => Cardinality(preview_log.created) < MaxRendered
    /\ previewer' = r.previewer
    /\ preview_log' =
           [preview_log EXCEPT
               !.created = IF r.ran = 1 THEN @ \cup {next_entity} ELSE @,
               !.touched = @ \cup {key},
               !.last = PreviewCall("render", Some(key), r.ran, previewer,
                                    preview_log.touched, EmptyMap)]

Collected(g) ==
    /\ previewer.epoch < MaxEpoch
    /\ previewer' = g.previewer
    /\ preview_log' =
           [preview_log EXCEPT
               !.despawns =
                   LET gone == {g.despawned[k] : k \in DOMAIN g.despawned}
                       commands(e) == Cardinality({k \in DOMAIN g.despawned :
                                                      g.despawned[k] = e})
                   IN [e \in (DOMAIN @) \cup gone |->
                          (IF e \in DOMAIN @ THEN @[e] ELSE 0) + commands(e)],
               !.touched = {},
               !.last = PreviewCall("collect_garbage", None, 0, previewer,
                                    preview_log.touched, g.despawned)]

----------------------------------------------------------------------------
\* The editor's state machine: one action, the frame.

NowEditor == Editor(buildings, editor_tool, points, dragging, panicked)

StoreEditor(e) ==
    /\ buildings' = e.buildings
    /\ editor_tool' = e.editor_tool
    /\ points' = e.points
    /\ dragging' = e.dragging
    /\ panicked' = e.panicked

\* what a frame asks of the select tool: nothing, or to move the point of the
\* drag in effect to a cell that gives an invalid or a valid outline
drag_attempt(e, in) ==
    LET e1 == switch_tool_system(e, in)
        drag == grab(e1, in)
    IN IF e1.editor_tool # "SelectBuilding" \/ in.mouse = None \/ drag = None
       THEN [kind |-> "none", drag |-> None, target |-> None]
       ELSE LET building == e1.buildings[drag[1].building_index]
            IN IF building.outline[drag[1].point_index] = in.mouse[1]
               THEN [kind |-> "none", drag |-> None, target |-> None]
               ELSE [kind |-> IF is_valid(dragged(building, drag[1], in.mouse[1]),
                                          BuildingValidity_default)
                              THEN "valid" ELSE "invalid",
                     drag |-> drag, target |-> in.mouse]

NoFrame ==
    [attempt |-> [kind |-> "none", drag |-> None, target |-> None],
     rejected_before |-> FALSE, closed |-> FALSE, reversed |-> FALSE]

InitEditor ==
    /\ buildings = EditorWorld_new.buildings
    /\ editor_tool = EditorWorld_new.editor_tool
    /\ points = EditorWorld_new.points
    /\ dragging = EditorWorld_new.dragging
    /\ panicked = EditorWorld_new.panicked
    /\ last_frame = NoFrame

\* One frame. The select tool treats each building on its own and the create
\* tool never reads the buildings, so one outline is kept: a building or the
\* points being drawn.
StoreFrame(e, attempt) ==
    /\ ~panicked
    /\ Len(e.buildings) <= 1
    /\ e.buildings = <<>> \/ e.points = <<>>
    /\ Len(e.points) <= MaxPoints
    /\ StoreEditor(e)
    /\ last_frame' =
           [attempt |-> attempt,
            rejected_before |->
                /\ e.dragging # None
                /\ e.dragging = dragging
                /\ last_frame.attempt.kind = "invalid" \/ last_frame.rejected_before,
            closed |-> Len(e.buildings) > Len(buildings),
            reversed |-> /\ Len(e.buildings) > Len(buildings)
                         /\ e.buildings[Len(e.buildings)].outline # points]

\* the engine of voxels.rs is no part of the editor
VoxelsUnchanged ==
    UNCHANGED <<symmetry, voxel_fill, column_shift, undo_log, undo_commit_indexes,
                entities, despawn_missing, last_call, seq_start, not_undone>>

Update(in) ==
    /\ StoreFrame(frame(NowEditor, in), drag_attempt(NowEditor, in))
    /\ VoxelsUnchanged
    /\ UNCHANGED probe
    /\ PreviewUnchanged

----------------
\* Calls of the functions of geometry_utils.rs, building.rs and
\* editor_state.rs on their own: the arguments are drawn first, then the call
\* is made and its outcome recorded.

\* the outlines of at most n points of the grid
Outlines(n) == UNION {[1..k -> Grid] : k \in 0..n}
Segments == Grid \X Grid
\* a square of side 4, counter-clockwise
ExampleSquare == <<<<0, 0>>, <<4, 0>>, <<4, 4>>, <<0, 4>>>>
AllBuildingValidity == {BuildingValidity(one, two) : one \in BOOLEAN, two \in BOOLEAN}

Arguments(fn) ==
    [fn |-> fn, a |-> <<<<0, 0>>, <<0, 0>>>>, b |-> <<<<0, 0>>, <<0, 0>>>>,
     outline |-> <<>>, options |-> BuildingValidity_default, floor_y |-> 0,
     point |-> 1, p |-> <<0, 0>>, points |-> <<>>, done |-> FALSE, outcome |-> Panic]

NoProbe == Arguments("none")

\* the arguments of the calls
ProbeArguments ==
    \/ \E a \in Segments, b \in Segments :
           probe = [Arguments("segments_cross") EXCEPT !.a = a, !.b = b]
    \/ \E o \in Outlines(MaxOutline) \cup {ExampleSquare, reverse(ExampleSquare)},
          opt \in AllBuildingValidity :
           probe = [Arguments("is_valid") EXCEPT !.outline = o, !.options = opt]
    \/ \E o \in Outlines(MaxOutline), y \in {0, 1} :
           probe = [Arguments("Building::new") EXCEPT !.outline = o, !.floor_y = y]
    \/ \E o \in Outlines(MaxOutline) :
           probe = [Arguments("signed_polygon_area_2d") EXCEPT !.outline = o]

\* the arguments of set_building_point: a building Building::new returns, one
\* of its points and the new position
SetPointArguments ==
    \E o \in Outlines(MaxOutline) :
        /\ ~Building_new(0, o).panicked
        /\ \E i \in 1..Len(o), g \in Grid :
               probe = [Arguments("set_building_point") EXCEPT
                            !.outline = o, !.point = i, !.p = g]

\* four points of which one is the origin
HullCoordinates == {0, 1, MaxCoordinate}
HullPoints == HullCoordinates \X HullCoordinates \X HullCoordinates
FromPointsArguments ==
    \E pts \in [1..4 -> HullPoints] :
        /\ \E i \in 1..4 : pts[i] = <<0, 0, 0>>
        /\ \A i, j \in 1..4 : i # j => pts[i] # pts[j]
        /\ probe = [Arguments("from_points") EXCEPT !.points = pts]

Done(outcome) ==
    /\ probe' = [probe EXCEPT !.done = TRUE, !.outcome = outcome]
    /\ VoxelsUnchanged
    /\ UNCHANGED <<buildings, editor_tool, points, dragging, panicked, last_frame>>
    /\ PreviewUnchanged

CallSegmentsCross ==
    /\ probe.fn = "segments_cross" /\ ~probe.done
    /\ Done(Return(segments_cross(probe.a, probe.b)))

CallIsValid ==
    /\ probe.fn = "is_valid" /\ ~probe.done
    /\ Done(Return(is_valid(Building(0, probe.outline), probe.options)))

CallBuildingNew ==
    /\ probe.fn = "Building::new" /\ ~probe.done
    /\ Done(Building_new(probe.floor_y, probe.outline))

CallSignedPolygonArea ==
    /\ probe.fn = "signed_polygon_area_2d" /\ ~probe.done
    /\ Done(Return(signed_polygon_area_2d(probe.outline)))

\* set_building_point on an EditorWorld holding one building
CallFromPoints ==
    /\ probe.fn = "from_points" /\ ~probe.done
    /\ Done(from_points(probe.points))

CallSetBuildingPoint ==
    /\ probe.fn = "set_building_point" /\ ~probe.done
    /\ Done(set_building_point(<<Building(0, probe.outline)>>, 1, probe.point, probe.p))

\* the editor and the calls of single functions at rest
EditorAtRest == InitEditor /\ probe = NoProbe /\ InitPreviewer
EditorUnchanged ==
    UNCHANGED <<buildings, editor_tool, points, dragging, panicked, last_frame, probe,
                previewer, preview_log>>

\* the calls of the previewer
Render(key) ==
    /\ Rendered(key, Previewer_render(previewer, key, next_entity))
    /\ VoxelsUnchanged
    /\ UNCHANGED <<buildings, editor_tool, points, dragging, panicked, last_frame, probe>>

CollectGarbage ==
    /\ Collected(Previewer_collect_garbage(previewer))
    /\ VoxelsUnchanged
    /\ UNCHANGED <<buildings, editor_tool, points, dragging, panicked, last_frame, probe>>

----------------------------------------------------------------------------
\* The state machine: one action per public call.

\* coordinate -> material of the present cells
MaterialsOf(fill) == [c \in DOMAIN fill |-> fill[c].material]

Call(op) ==
    [op |-> op, voxel |-> ZERO, mat |-> "gray_material", column |-> <<0, 0>>, by |-> 0,
     state |-> EMPTY_EDITOR_STATE, pushed |-> 0, muts |-> 0, applied |-> <<>>,
     after_commit |-> FALSE, uncommitted |-> 0,
     start |-> [materials |-> EmptyMap, shifts |-> NoShift]]

Now == World(voxel_fill, column_shift, undo_log, entities, despawn_missing)

WithinBounds(b, w) ==
    /\ Len(w.undo_log) <= b.log
    /\ Cardinality(w.entities \ Handles(w)) <= b.leaked

Store(w) ==
    /\ voxel_fill' = w.voxel_fill
    /\ column_shift' = w.column_shift
    /\ undo_log' = w.undo_log
    /\ entities' = w.entities
    /\ despawn_missing' = w.despawn_missing

\* Voxels::new_empty with the symmetry field set to sym
new_empty(sym) ==
    /\ symmetry = sym
    /\ voxel_fill = EmptyMap
    /\ column_shift = NoShift
    /\ undo_log = <<>>
    /\ undo_commit_indexes = <<>>
    /\ entities = {}
    /\ despawn_missing = 0
    /\ last_call = Call("new_empty")
    /\ seq_start = [materials |-> EmptyMap, shifts |-> NoShift]
    /\ not_undone = <<>>

\* the world w a call has produced is stored and the call recorded
Applied(b, w, call) ==
    /\ WithinBounds(b, w)
    /\ Store(w)
    /\ last_call' = [call EXCEPT !.pushed = Len(w.undo_log) - Len(undo_log),
                                 !.muts = w.muts]
    /\ UNCHANGED <<symmetry, undo_commit_indexes, seq_start, not_undone>>
    /\ EditorUnchanged

AddVoxel(b, voxel, mat) ==
    Applied(b, add_voxel(symmetry, Now, voxel, mat),
            [Call("add_voxel") EXCEPT !.voxel = voxel, !.mat = mat])

\* remove_voxel at the origin or on a cell that is present (itself or its
\* mirror image). On any other cell both remove_voxel_internal calls return at
\* `let Some(..) else { return }` and the call changes nothing: it is the
\* stuttering step.
Removed(b, w, voxel) ==
    /\ voxel = ZERO \/ w.undo_log # undo_log
    /\ Applied(b, w, [Call("remove_voxel") EXCEPT !.voxel = voxel])

RemoveVoxel(b, voxel) == Removed(b, remove_voxel(symmetry, Now, voxel), voxel)

ShiftColumn(b, column, by) ==
    Applied(b, shift_column(symmetry, Now, column, by),
            [Call("shift_column") EXCEPT !.column = column, !.by = by])

\* commit_changes, called as its documentation asks: after
\* has_changes_to_commit has answered true
CommitChanges(b, editor_state) ==
    /\ Len(undo_commit_indexes) < b.commits
    /\ has_changes_to_commit(undo_commit_indexes, undo_log)
    /\ undo_commit_indexes' = commit_changes(undo_commit_indexes, undo_log, editor_state)
    /\ last_call' = [Call("commit_changes") EXCEPT !.state = editor_state, !.start = seq_start]
    /\ seq_start' = [materials |-> MaterialsOf(voxel_fill), shifts |-> column_shift]
    /\ not_undone' = Append(not_undone, editor_state)
    /\ UNCHANGED <<symmetry, voxel_fill, column_shift, undo_log, entities, despawn_missing>>
    /\ EditorUnchanged

Undone(returned, commits, w) ==
    /\ Store(w)
    /\ undo_commit_indexes' = commits
    /\ last_call' = [Call("undo_last_action") EXCEPT
                         !.state = returned,
                         !.applied = w.applied,
                         !.after_commit = (last_call.op = "commit_changes"),
                         !.uncommitted =
                             IF undo_commit_indexes # <<>>
                             THEN Len(undo_log)
                                      - undo_commit_indexes[Len(undo_commit_indexes)].index
                             ELSE 0,
                         !.start = IF last_call.op = "commit_changes"
                                   THEN last_call.start ELSE @]
    /\ seq_start' = [materials |-> MaterialsOf(w.voxel_fill), shifts |-> w.column_shift]
    /\ not_undone' = IF not_undone # <<>>
                     THEN SubSeq(not_undone, 1, Len(not_undone) - 1) ELSE not_undone
    /\ UNCHANGED symmetry
    /\ EditorUnchanged

UndoLastAction ==
    Undone(last_editor_state(undo_commit_indexes), pop_commit(undo_commit_indexes),
           undo_loop(Now, undo_until(pop_commit(undo_commit_indexes))))

\* The program as built: new_empty sets the symmetry to Rotation.
Bounds == [log |-> MaxLog, commits |-> MaxCommits, leaked |-> MaxLeaked]

Init == new_empty("Rotation") /\ EditorAtRest

Next ==
    \/ \E voxel \in Coords, mat \in Materials : AddVoxel(Bounds, voxel, mat)
    \/ \E voxel \in Coords : RemoveVoxel(Bounds, voxel)
    \/ \E column \in Columns, by \in Deltas : ShiftColumn(Bounds, column, by)
    \/ \E editor_state \in EditorStates : CommitChanges(Bounds, editor_state)
    \/ UndoLastAction

Spec == Init /\ [][Next]_vars

\* The engine under each kind of symmetry the field can hold, for the
\* properties stated for every SymmetryKind. They are about single calls, so
\* one commit boundary is kept.
BoundsAnySymmetry == [log |-> MaxLog, commits |-> 1, leaked |-> MaxLeaked]

InitAnySymmetry == (\E sym \in SymmetryKind : new_empty(sym)) /\ EditorAtRest

NextAnySymmetry ==
    \/ \E voxel \in Coords, mat \in Materials : AddVoxel(BoundsAnySymmetry, voxel, mat)
    \/ \E voxel \in Coords : RemoveVoxel(BoundsAnySymmetry, voxel)
    \/ \E column \in Columns, by \in Deltas : ShiftColumn(BoundsAnySymmetry, column, by)
    \/ \E editor_state \in EditorStates : CommitChanges(BoundsAnySymmetry, editor_state)
    \/ UndoLastAction

SpecAnySymmetry == InitAnySymmetry /\ [][NextAnySymmetry]_vars

\* The engine as built, with shifts as large as the argument type allows:
\* shift_column takes any i32.
NextWideShift ==
    \/ \E column \in Columns, by \in WideDeltas : ShiftColumn(Bounds, column, by)
    \/ \E editor_state \in EditorStates : CommitChanges(Bounds, editor_state)
    \/ UndoLastAction

SpecWideShift == Init /\ [][NextWideShift]_vars

\* The engine under each kind of symmetry with room in the log for one
\* add_voxel that writes the same cell twice: three entries.
BoundsOverwrite == [log |-> MaxLog + 1, commits |-> 1, leaked |-> MaxLeaked]

NextOverwrite ==
    \/ \E voxel \in Coords, mat \in Materials : AddVoxel(BoundsOverwrite, voxel, mat)
    \/ UndoLastAction

SpecOverwrite == InitAnySymmetry /\ [][NextOverwrite]_vars

\* The engine as built, called on the two cells off the centre column that
\* Rotation maps to each other, with room in the log for an add_voxel of the
\* two cells (two entries) and one that replaces them (four entries).
PairedCoords == {c \in Coords : xz(c) # <<0, 0>>}
BoundsPaired == [log |-> MaxLog + 4, commits |-> 1, leaked |-> MaxLeaked]

NextPaired ==
    \/ \E voxel \in PairedCoords, mat \in Materials : AddVoxel(BoundsPaired, voxel, mat)
    \/ \E voxel \in PairedCoords : RemoveVoxel(BoundsPaired, voxel)
    \/ \E voxel \in PairedCoords, by \in Deltas : ShiftColumn(BoundsPaired, xz(voxel), by)
    \/ \E editor_state \in EditorStates : CommitChanges(BoundsPaired, editor_state)
    \/ UndoLastAction

SpecPaired == Init /\ [][NextPaired]_vars

\* The previewer, call by call.
NextPreview ==
    \/ \E key \in PreviewKeys : Render(key)
    \/ CollectGarbage

SpecPreview == Init /\ [][NextPreview]_vars

\* The editor, frame by frame.
NextEditor == \E in \in Inputs : Update(in)

InitFrames == new_empty("Rotation") /\ EditorAtRest

SpecEditor == InitFrames /\ [][NextEditor]_vars

\* The functions called on their own.
InitCalls == new_empty("Rotation") /\ InitEditor /\ InitPreviewer /\ ProbeArguments

NextCalls ==
    \/ CallSegmentsCross
    \/ CallIsValid
    \/ CallBuildingNew
    \/ CallSignedPolygonArea

SpecCalls == InitCalls /\ [][NextCalls]_vars

\* EditorWorld::set_building_point called on its own.
InitSetPoint == new_empty("Rotation") /\ InitEditor /\ InitPreviewer /\ SetPointArguments

NextSetPoint == CallSetBuildingPoint

SpecSetPoint == InitSetPoint /\ [][NextSetPoint]_vars

\* ConvexHull::from_points, called once.
InitFromPoints == new_empty("Rotation") /\ InitEditor /\ InitPreviewer /\ FromPointsArguments

NextFromPoints == CallFromPoints

SpecFromPoints == InitFromPoints /\ [][NextFromPoints]_vars



----------------------------------------------------------------------------
\* Properties.

Origin == has_voxel(voxel_fill, ZERO)
EditOps == {"add_voxel", "remove_voxel", "shift_column"}

\* the engine's data after the step
After == World(voxel_fill', column_shift', undo_log', entities', despawn_missing')

\* C1 (as claimed): a sequence of add_voxel / remove_voxel / shift_column calls
\* begun with no uncommitted edits, then commit_changes, then undo_last_action,
\* leaves the coordinate -> material mapping and the column shifts as they were
\* when the sequence began.
C1_RoundTripUndo ==
    (last_call.op = "undo_last_action" /\ last_call.after_commit)
        => /\ MaterialsOf(voxel_fill) = last_call.start.materials
           /\ column_shift = last_call.start.shifts

\* C2: undo_last_action returns the snapshot passed to the most recent
\* commit_changes call not yet undone (so the snapshots come back in LIFO
\* order), and a snapshot with an empty selection when there is no boundary.
C2_UndoReturnsLastCommitted ==
    [][last_call'.op = "undo_last_action"
         => last_call'.state = IF not_undone # <<>>
                               THEN not_undone[Len(not_undone)]
                               ELSE [selection |-> <<>>]]_vars

\* two commits with different snapshots were made, and undo returned the second
C2_Witness ==
    /\ last_call.op = "undo_last_action"
    /\ last_call.state \in EditorStates
    /\ not_undone # <<>>
    /\ not_undone[Len(not_undone)] # last_call.state

\* C3: under every symmetry kind, remove_voxel(c) never changes
\* has_voxel(ZERO) from true to false, and remove_voxel(ZERO) pushes no undo
\* entry.
C3_ProtectedOriginOnRemove ==
    [][last_call'.op = "remove_voxel"
         => /\ Origin => Origin'
            /\ last_call'.voxel = ZERO => undo_log' = undo_log]_vars

\* remove_voxel(ZERO) was called on a world whose origin cell is present
C3_Witness ==
    /\ last_call.op = "remove_voxel"
    /\ last_call.voxel = ZERO
    /\ Origin

\* C4 (as claimed): once has_voxel(ZERO) is true it stays true after any later
\* add_voxel, remove_voxel, shift_column, commit_changes and undo_last_action.
C4_OriginStaysForever == [][Origin => Origin']_vars

\* C4 (amended): has_voxel(ZERO) changes from true to false only in an
\* undo_last_action call that applies the undo entry of an add_voxel at the
\* origin; add_voxel, remove_voxel, shift_column and commit_changes keep it.
C4_OriginLostOnlyByUndoOfAdd ==
    [][(Origin /\ ~Origin')
         => /\ last_call'.op = "undo_last_action"
            /\ \E i \in 1..Len(last_call'.applied) :
                   /\ last_call'.applied[i].kind = "delete"
                   /\ last_call'.applied[i].voxel = ZERO]_vars

\* an undo applied entries and the origin cell is still present
C4_Witness ==
    /\ last_call.op = "undo_last_action"
    /\ last_call.applied # <<>>
    /\ Origin

\* C5: under rotation symmetry, after add_voxel((x,y,z), m) with (x,z) # (0,0)
\* the cell (-x,y,-z) holds blue if m is red, red if m is blue and m otherwise;
\* and add_voxel / remove_voxel / shift_column on the centre column change no
\* cell and no column shift outside column (0,0).
C5_SymmetryPairing ==
    [][symmetry = "Rotation" =>
         LET op == last_call'.op
             v == last_call'.voxel
             m == last_call'.mat
             centre == \/ op \in {"add_voxel", "remove_voxel"} /\ <<v[1], v[3]>> = <<0, 0>>
                       \/ op = "shift_column" /\ last_call'.column = <<0, 0>>
         IN /\ (op = "add_voxel" /\ <<v[1], v[3]>> # <<0, 0>>)
                => get_material(voxel_fill', <<-v[1], v[2], -v[3]>>) =
                      Some(CASE m = "red_material" -> "blue_material"
                             [] m = "blue_material" -> "red_material"
                             [] OTHER -> m)
            /\ centre
                => /\ \A c \in (DOMAIN voxel_fill) \cup (DOMAIN voxel_fill') :
                          <<c[1], c[3]>> # <<0, 0>>
                              => /\ c \in DOMAIN voxel_fill
                                 /\ c \in DOMAIN voxel_fill'
                                 /\ voxel_fill'[c] = voxel_fill[c]
                   /\ \A col \in Columns :
                          col # <<0, 0>> => column_shift'[col] = column_shift[col]]_vars

\* a red cell was added off the centre column under rotation symmetry
C5_Witness ==
    /\ symmetry = "Rotation"
    /\ last_call.op = "add_voxel"
    /\ last_call.mat = "red_material"
    /\ xz(last_call.voxel) # <<0, 0>>

\* C6 (as claimed): the entities spawned and not yet despawned are exactly the
\* handles stored in the present cells, one distinct live entity per present
\* cell, and no entity is despawned twice.
C6_RendererConsistency ==
    /\ \A c \in DOMAIN voxel_fill : voxel_fill[c].rendered # None
    /\ entities = {voxel_fill[c].rendered[1] : c \in DOMAIN voxel_fill}
    /\ \A c, d \in DOMAIN voxel_fill :
           c # d => voxel_fill[c].rendered # voxel_fill[d].rendered
    /\ despawn_missing = 0

\* C7 (as claimed): one add_voxel, remove_voxel or shift_column call pushes as
\* many undo entries as it made physical mutations, and the entries invert
\* them; remove_voxel on an absent cell pushes nothing, and replacing an
\* occupied cell pushes one entry for the removal of the old cell and one for
\* the insertion of the new one.
C7_UndoLogDiscipline ==
    [][last_call'.op \in EditOps =>
         LET v == last_call'.voxel
             mirrored == apply_symmetry(symmetry, v)
             undone == undo_loop(After, Len(undo_log))
         IN /\ Len(undo_log') - Len(undo_log) = last_call'.muts
            /\ SubSeq(undo_log', 1, Len(undo_log)) = undo_log
            /\ MaterialsOf(undone.voxel_fill) = MaterialsOf(voxel_fill)
            /\ undone.column_shift = column_shift
            /\ (/\ last_call'.op = "remove_voxel"
                /\ v \notin DOMAIN voxel_fill
                /\ mirrored # None => mirrored[1] \notin DOMAIN voxel_fill)
                 => undo_log' = undo_log
            /\ (last_call'.op = "add_voxel" /\ v \in DOMAIN voxel_fill)
                 => \E i \in (Len(undo_log) + 1)..(Len(undo_log') - 1) :
                        /\ undo_log'[i] = Reinsert(v, [material |-> voxel_fill[v].material,
                                                       rendered |-> None])
                        /\ undo_log'[i + 1] = Delete(v)]_vars

\* C8 (as claimed): has_changes_to_commit() is true exactly when at least one
\* undo entry has been recorded since the last commit boundary, or since the
\* creation of the world when there is no boundary.
C8_HasChangesIffEditsSinceBoundary ==
    has_changes_to_commit(undo_commit_indexes, undo_log)
        <=> Len(undo_log) > (IF undo_commit_indexes # <<>>
                             THEN undo_commit_indexes[Len(undo_commit_indexes)].index
                             ELSE 0)

\* C9: undo_last_action pops exactly one commit boundary when one exists,
\* applies the undo entries in the reverse order of their recording, and stops
\* when the log length equals the index of the boundary now on top of the
\* stack (0 when the stack is empty), after finitely many entries.
C9_UndoStopsAtBoundary ==
    [][last_call'.op = "undo_last_action" =>
         LET n == Len(undo_commit_indexes)
             until == IF n >= 2 THEN undo_commit_indexes[n - 1].index ELSE 0
         IN /\ undo_commit_indexes' = SubSeq(undo_commit_indexes, 1, n - 1)
            /\ until <= Len(undo_log)
            /\ undo_log' = SubSeq(undo_log, 1, until)
            /\ last_call'.applied =
                   [i \in 1..(Len(undo_log) - until) |-> undo_log[Len(undo_log) + 1 - i]]]_vars

\* an undo applied an entry and stopped at a boundary above the start
C9_Witness ==
    /\ last_call.op = "undo_last_action"
    /\ last_call.applied # <<>>
    /\ undo_commit_indexes # <<>>
    /\ undo_commit_indexes[Len(undo_commit_indexes)].index > 0
    /\ Len(undo_log) = undo_commit_indexes[Len(undo_commit_indexes)].index

\* C10: shift_column(column, delta) leaves the present cells, their coordinates
\* and their materials unchanged, increases the shift of the target column and
\* of its mirrored column by exactly delta, and leaves every other column's
\* shift unchanged.
C10_ShiftColumnFrame ==
    [][last_call'.op = "shift_column" =>
         LET column == last_call'.column
             mirror == IF column = <<0, 0>> \/ symmetry = "None" THEN {}
                       ELSE IF symmetry = "Rotation" THEN {<<-column[1], -column[2]>>}
                       ELSE {<<-column[1], column[2]>>}
         IN /\ MaterialsOf(voxel_fill') = MaterialsOf(voxel_fill)
            /\ \A col \in Columns :
                   column_shift'[col] =
                       IF col \in {column} \cup mirror
                       THEN column_shift[col] + last_call'.by
                       ELSE column_shift[col]]_vars

\* a column off the centre was shifted down and its mirrored column with it
C10_Witness ==
    /\ last_call.op = "shift_column"
    /\ last_call.column = <<0, 1>>
    /\ last_call.by = -1
    /\ column_shift[<<0, -1>>] # 0

----------------------------------------------------------------------------
\* C11 (as claimed): the accumulated shift of every column stays below half the
\* size of a cell in magnitude, VOXEL_SIZE / 2 = 64, and a shift_column call
\* never wraps the i32 it adds to: a positive delta never lowers a shift and a
\* negative one never raises it. shift_column_internal adds `by` with no limit,
\* so one call with by = 64 breaks the first part and two calls with by = 2^30
\* on the centre column break the second.
C11_ShiftBelowHalfVoxelNoOverflow ==
    [][/\ \A col \in Columns :
            /\ column_shift'[col] < VOXEL_SIZE \div 2
            /\ column_shift'[col] > -(VOXEL_SIZE \div 2)
       /\ last_call'.op = "shift_column" =>
            \A col \in Columns :
                /\ last_call'.by > 0 => column_shift'[col] >= column_shift[col]
                /\ last_call'.by < 0 => column_shift'[col] <= column_shift[col]]_vars

\* two shifts of the centre column by 2^30 have wrapped its shift to i32::MIN
WrappedShift ==
    last_call.op = "shift_column" /\ last_call.by > 0 /\ column_shift[<<0, 0>>] = i32_MIN

C28_UncommittedUndoneWithLastAction ==
    [][(/\ last_call'.op = "undo_last_action"
        /\ undo_commit_indexes # <<>>
        /\ Len(undo_log) > undo_commit_indexes[Len(undo_commit_indexes)].index) =>
         LET n == Len(undo_commit_indexes)
             top == undo_commit_indexes[n]
             below == IF n >= 2 THEN undo_commit_indexes[n - 1].index ELSE 0
             \* the entries from position first to position last, newest first
             newest_first(first, last) ==
                 [i \in 1..(last + 1 - first) |-> undo_log[last + 1 - i]]
         IN /\ last_call'.state = top.state
            /\ undo_commit_indexes' = SubSeq(undo_commit_indexes, 1, n - 1)
            /\ below <= top.index
            /\ last_call'.applied =
                   newest_first(top.index + 1, Len(undo_log))
                       \o newest_first(below + 1, top.index)
            /\ undo_log' = SubSeq(undo_log, 1, below)]_vars

\* an undo has applied an uncommitted entry and then an entry of the action
\* committed before it
C28_Witness ==
    /\ last_call.op = "undo_last_action"
    /\ last_call.uncommitted >= 1
    /\ Len(last_call.applied) > last_call.uncommitted
    /\ last_call.state \in EditorStates

\* the boundary indexes do not decrease from the bottom of the stack to the top
\* and none is above the length of the log
BoundariesOrdered(commits, log) ==
    /\ \A i \in 1..Len(commits) : commits[i].index <= Len(log)
    /\ \A i \in 1..(Len(commits) - 1) : commits[i].index <= commits[i + 1].index

\* C29: in every reachable state the boundary indexes are non-decreasing from
\* the bottom to the top of the stack and each is at most the length of the
\* undo log; undo_last_action pushes no undo entry and no boundary, and right
\* after it the log length is the index of the boundary on top of the stack (0
\* when the stack is empty).
C29_CommitBoundaries ==
    [][/\ BoundariesOrdered(undo_commit_indexes, undo_log)
       /\ BoundariesOrdered(undo_commit_indexes', undo_log')
       /\ last_call'.op = "undo_last_action" =>
              /\ Len(undo_log') <= Len(undo_log)
              /\ undo_log' = SubSeq(undo_log, 1, Len(undo_log'))
              /\ Len(undo_commit_indexes') <= Len(undo_commit_indexes)
              /\ undo_commit_indexes'
                     = SubSeq(undo_commit_indexes, 1, Len(undo_commit_indexes'))
              /\ \A i \in 1..Len(last_call'.applied) :
                     apply_undo(Now, last_call'.applied[i]).undo_log = undo_log
              /\ Len(undo_log') = IF undo_commit_indexes' # <<>>
                                  THEN undo_commit_indexes'[Len(undo_commit_indexes')].index
                                  ELSE 0]_vars

\* an undo has applied an entry and left the log at the index, above the
\* start, of the boundary that is now on top
C29_Witness ==
    /\ last_call.op = "undo_last_action"
    /\ last_call.applied # <<>>
    /\ undo_commit_indexes # <<>>
    /\ undo_commit_indexes[Len(undo_commit_indexes)].index >= 1
    /\ Len(undo_log) = undo_commit_indexes[Len(undo_commit_indexes)].index

\* the image of a cell under the rotation about the centre column
rotated(c) == <<-c[1], c[2], -c[3]>>

\* C27: under rotation symmetry, between calls, a cell off the centre column is
\* present if and only if its image is, the materials of the two are colour
\* complements, and the columns of the two have the same accumulated shift.
C27_RotationSymmetric ==
    symmetry = "Rotation" =>
        /\ \A c \in DOMAIN voxel_fill :
               xz(c) # <<0, 0>> =>
                   /\ rotated(c) \in DOMAIN voxel_fill
                   /\ voxel_fill[c].material \in {"red_material", "blue_material"} =>
                          /\ voxel_fill[rotated(c)].material \in {"red_material", "blue_material"}
                          /\ voxel_fill[rotated(c)].material # voxel_fill[c].material
                   /\ voxel_fill[c].material \notin {"red_material", "blue_material"} =>
                          voxel_fill[rotated(c)].material = voxel_fill[c].material
        /\ \A column \in Columns :
               shift_of(column_shift, column)
                   = shift_of(column_shift, <<-column[1], -column[2]>>)

\* an add_voxel has replaced a cell and its image by a red and a blue one
C27_Witness ==
    /\ last_call.op = "add_voxel" /\ last_call.pushed = 4
    /\ last_call.voxel \in DOMAIN voxel_fill
    /\ voxel_fill[last_call.voxel].material = "red_material"
    /\ voxel_fill[rotated(last_call.voxel)].material = "blue_material"

----------------------------------------------------------------------------
\* Properties of the buildings and the geometry.

\* the outcome of the call made, when it returned
Returned == probe.done /\ ~probe.outcome.panicked
Result == probe.outcome.value[1]

\* The five checks in the words of the specification, over the corners, the
\* points and the edges counted by their place in the outline; corner(o, i) is
\* the corner at point i and edge(o, i) the edge from point i to the next one.
corner(o, i) ==
    Corner(o[((i + Len(o) - 2) % Len(o)) + 1], o[i], o[(i % Len(o)) + 1])
edge(o, i) == <<o[i], o[(i % Len(o)) + 1]>>
endpoint_of(o, k, i) == k = i \/ k = (i % Len(o)) + 1
share_endpoint(o, i, j) == endpoint_of(o, i, j) \/ endpoint_of(o, j, i)

NoSharpCorner(o) == \A i \in 1..Len(o) : ~is_corner_too_sharp(corner(o, i))
AllDistinct(o) == Cardinality(PointSet(o)) = Len(o)
NoPointNearEdge(o) ==
    \A k \in 1..Len(o), i \in 1..Len(o) :
        ~endpoint_of(o, k, i) => ~closer_than_MIN_INTERIOR_THICKNESS(o[k], edge(o, i))
NoCrossing(o) ==
    \A i \in 1..Len(o), j \in 1..Len(o) :
        (i < j /\ ~share_endpoint(o, i, j)) => ~segments_cross(edge(o, i), edge(o, j))
\* twice the area by the shoelace formula
Shoelace(o) ==
    LET term(i) == o[i][1] * o[(i % Len(o)) + 1][2] - o[(i % Len(o)) + 1][1] * o[i][2]
        sum[i \in 0..Len(o)] == IF i = 0 THEN 0 ELSE sum[i - 1] + term(i)
    IN sum[Len(o)]
PositiveArea(o) == Shoelace(o) > 0

\* C12: for an outline of at least 3 points is_valid returns true if and only
\* if all five checks pass: no corner too sharp, no two points equal, no point
\* closer than MIN_INTERIOR_THICKNESS to an edge it is not an endpoint of, no
\* two edges without a shared endpoint crossing, and a positive signed area.
C12_IsValidIffFiveChecks ==
    (probe.fn = "is_valid" /\ Returned /\ Len(probe.outline) >= 3) =>
        (Result <=> /\ NoSharpCorner(probe.outline)
                    /\ AllDistinct(probe.outline)
                    /\ NoPointNearEdge(probe.outline)
                    /\ NoCrossing(probe.outline)
                    /\ PositiveArea(probe.outline))

\* is_valid has accepted an outline of four points
C12_Witness ==
    probe.fn = "is_valid" /\ Returned /\ Len(probe.outline) = 4 /\ Result

\* C13: is_valid rejects every outline whose signed area is zero or negative, so
\* an outline it accepts is rejected in reversed order; the square (0,0), (4,0),
\* (4,4), (0,4) is accepted and its reversal rejected.
C13_ReversalRejected ==
    /\ (probe.fn = "is_valid" /\ Returned /\ Result) =>
           /\ Shoelace(probe.outline) > 0
           /\ ~is_valid(Building(0, reverse(probe.outline)), probe.options)
    /\ (probe.fn = "is_valid" /\ Returned /\ Shoelace(probe.outline) <= 0) => ~Result
    /\ (probe.fn = "is_valid" /\ Returned /\ probe.outline = ExampleSquare) => Result
    /\ (probe.fn = "is_valid" /\ Returned /\ probe.outline = reverse(ExampleSquare)) => ~Result

\* is_valid has accepted the square of the example
C13_Witness ==
    probe.fn = "is_valid" /\ Returned /\ probe.outline = ExampleSquare /\ Result

\* C14 (as claimed): with allow_one_point set is_valid accepts an outline of one
\* point, with allow_two_points set it accepts an outline of two distinct
\* points, and with the option unset it rejects the same outline. The test of
\* the signed area comes after the options and signed_polygon_area_2d is 0 for
\* fewer than three points, so is_valid rejects these outlines whatever the
\* options are.
C14_OptionsAllowShortOutlines ==
    (probe.fn = "is_valid" /\ Returned) =>
        /\ Len(probe.outline) = 1 => (Result <=> probe.options.allow_one_point)
        /\ (Len(probe.outline) = 2 /\ AllDistinct(probe.outline)) =>
               (Result <=> probe.options.allow_two_points)

\* C18: Building::new panics exactly when it is given fewer than 3 points or two
\* equal points; otherwise it returns the given floor height and the given
\* points in the given order, valid or not.
C18_NewPanicsIffShortOrDuplicate ==
    (probe.fn = "Building::new" /\ probe.done) =>
        /\ probe.outcome.panicked <=>
               \/ Len(probe.outline) < 3
               \/ \E i \in 1..Len(probe.outline), j \in 1..Len(probe.outline) :
                      i # j /\ probe.outline[i] = probe.outline[j]
        /\ ~probe.outcome.panicked =>
               /\ Result.floor_y = probe.floor_y
               /\ Result.outline = probe.outline

\* Building::new has returned a building that is_valid rejects
C18_Witness ==
    /\ probe.fn = "Building::new" /\ Returned
    /\ probe.floor_y = 1
    /\ ~is_valid(Result, BuildingValidity_default)

\* C19: segments_cross(a, b) = segments_cross(b, a) for all segments.
C19_SegmentsCrossSymmetric ==
    (probe.fn = "segments_cross" /\ Returned) =>
        Result = segments_cross(probe.b, probe.a)

\* segments_cross has answered true for two segments that touch at an end
C19_Witness ==
    /\ probe.fn = "segments_cross" /\ Returned /\ Result
    /\ probe.a[2] = probe.b[1]

\* the side of the line through p and q that r lies on
orient(p, q, r) == perp_dot(sub2(q, p), sub2(r, p))
\* the ends of segment b lie on the two sides of the line through a, or on it
straddles(a, b) == orient(a[1], a[2], b[1]) * orient(a[1], a[2], b[2]) <= 0
\* two closed segments that are not parallel share a point
share_point(a, b) == straddles(a, b) /\ straddles(b, a)
parallel(a, b) == perp_dot(sub2(a[2], a[1]), sub2(b[2], b[1])) = 0

\* C20: segments_cross returns false when the cross product of the two
\* directions is zero, and otherwise true if and only if the two closed
\* segments share a point.
C20_SegmentsCrossIffSharePoint ==
    (probe.fn = "segments_cross" /\ Returned) =>
        (Result <=> (~parallel(probe.a, probe.b) /\ share_point(probe.a, probe.b)))

\* segments_cross has answered true for two segments where an end of one lies
\* inside the other
C20_Witness ==
    /\ probe.fn = "segments_cross" /\ Returned /\ Result
    /\ orient(probe.a[1], probe.a[2], probe.b[1]) = 0
    /\ probe.a[2] # probe.b[1] /\ probe.a[1] # probe.b[1]

\* point p lies on the closed segment a
on_segment(p, a) ==
    orient(a[1], a[2], p) = 0 /\ dot(sub2(p, a[1]), sub2(p, a[2])) <= 0
\* the closed segments a and b have a point in common
meet(a, b) ==
    IF parallel(a, b)
    THEN \/ on_segment(b[1], a) \/ on_segment(b[2], a)
         \/ on_segment(a[1], b) \/ on_segment(a[2], b)
    ELSE share_point(a, b)

\* the point list started k places later
rotate(o, k) == [i \in 1..Len(o) |-> o[((i + k - 1) % Len(o)) + 1]]

\* a loop that does not touch itself: distinct points, and each edge meets only
\* the two edges next to it, at the points it shares with them
Simple(o) ==
    /\ AllDistinct(o)
    /\ \A k \in 1..Len(o), i \in 1..Len(o) :
           ~endpoint_of(o, k, i) => ~on_segment(o[k], edge(o, i))
    /\ \A i \in 1..Len(o), j \in 1..Len(o) :
           ~share_endpoint(o, i, j) => ~meet(edge(o, i), edge(o, j))

\* a loop that does not touch itself runs counter-clockwise when it turns left
\* at its lowest of its leftmost points, a corner no other part of it encloses
LeftmostLowest(o) ==
    CHOOSE i \in 1..Len(o) :
        \A j \in 1..Len(o) :
            o[i][1] < o[j][1] \/ (o[i][1] = o[j][1] /\ o[i][2] <= o[j][2])
CounterClockwise(o) ==
    LET c == corner(o, LeftmostLowest(o))
    IN orient(c.a, c.pivot, c.b) > 0

\* C21: signed_polygon_area_2d is 0 for at most 2 points; for 3 or more grid
\* points it is the shoelace area, it is positive exactly for the loops that
\* run counter-clockwise, it is the same for every cyclic rotation of the
\* point list and the negated value for the reversed list.
C21_SignedAreaIsShoelace ==
    (probe.fn = "signed_polygon_area_2d" /\ Returned) =>
        LET o == probe.outline
        IN /\ Len(o) <= 2 => Result[1] = 0
           /\ Len(o) >= 3 =>
                  /\ Result[1] * 2 = Shoelace(o) * Result[2]
                  /\ Simple(o) => (Result[1] > 0 <=> CounterClockwise(o))
                  /\ \A k \in 1..Len(o) : signed_polygon_area_2d(rotate(o, k)) = Result
                  /\ signed_polygon_area_2d(reverse(o)) = <<-Result[1], Result[2]>>

\* signed_polygon_area_2d has returned a positive area for a loop of four points
\* that does not touch itself
C21_Witness ==
    /\ probe.fn = "signed_polygon_area_2d" /\ Returned
    /\ Len(probe.outline) = 4 /\ Simple(probe.outline)
    /\ Result[1] > 0

----------------------------------------------------------------------------
\* Properties of the half-space solids.

\* the four points do not lie in one plane
non_coplanar(pts) ==
    dot3(sub3(pts[4], pts[1]), cross3(sub3(pts[2], pts[1]), sub3(pts[3], pts[1]))) # 0

\* C22: for four points that do not lie in one plane, from_points does not
\* panic and returns a hull of exactly four planes whose normals point
\* outward (no point is more than EPSILON outside a plane), and the hull's
\* signed distance at each of the four points is within EPSILON of 0.
C22_HullOfFourPoints ==
    probe.fn = "from_points" /\ probe.done /\ non_coplanar(probe.points) =>
        /\ ~probe.outcome.panicked
        /\ probe.outcome.value[1] # None
        /\ LET hull == probe.outcome.value[1][1]
           IN /\ Len(hull.planes) = 4
              /\ \A i \in 1..4 :
                     /\ less(real_abs(hull_signed_distance(hull, Whole(probe.points[i]))),
                             Length(EPSILON))
                     /\ \A k \in 1..Len(hull.planes) :
                            ~less(Length(EPSILON),
                                  signed_distance(hull.planes[k], Whole(probe.points[i])))

----------------------------------------------------------------------------
\* Properties of the previewer.

\* the entities of the cache
cached_entities(self) == {self.cache[k].entity : k \in DOMAIN self.cache}

\* the entities the render closures spawned that no despawn command names
alive_entities == preview_log.created \ DOMAIN preview_log.despawns

\* C23: a call of render with a key of the cache does not run the closure,
\* keeps the entity and marks the entry with the epoch the next
\* collect_garbage keeps; a call with a key not in the cache runs the closure
\* once and tracks its entity under the key, marked the same way; no other
\* entry changes, and there is at most one live entity per key of the cache.
C23_RenderRunsClosureOnlyForNewKey ==
    preview_log.last.op = "render" =>
        LET before == preview_log.last.before
            key == preview_log.last.key[1]
        IN /\ previewer.epoch = before.epoch
           /\ key \in DOMAIN previewer.cache
           /\ previewer.cache[key].epoch = previewer.epoch + 1
           /\ key \in DOMAIN Previewer_collect_garbage(previewer).previewer.cache
           /\ key \in DOMAIN before.cache =>
                  /\ preview_log.last.ran = 0
                  /\ previewer.cache[key].entity = before.cache[key].entity
           /\ key \notin DOMAIN before.cache =>
                  /\ preview_log.last.ran = 1
                  /\ previewer.cache[key].entity \notin cached_entities(before)
                  /\ previewer.cache[key].entity = Cardinality(preview_log.created) - 1
           /\ DOMAIN previewer.cache = (DOMAIN before.cache) \cup {key}
           /\ \A k \in (DOMAIN before.cache) \ {key} : previewer.cache[k] = before.cache[k]
           /\ Cardinality(alive_entities) <= Cardinality(DOMAIN previewer.cache)

\* C23's case: after a collect_garbage, a key still cached is rendered again
\* while another key is rendered for the first time in the same epoch.
C23_Witness ==
    /\ preview_log.last.op = "render"
    /\ preview_log.last.ran = 0
    /\ preview_log.last.before.epoch >= 1
    /\ preview_log.last.before.cache[preview_log.last.key[1]].epoch
           = preview_log.last.before.epoch
    /\ Cardinality(DOMAIN previewer.cache) = 2
    /\ Cardinality(preview_log.created) >= 2

\* C24: collect_garbage keeps exactly the entries of the keys rendered since
\* the previous collect_garbage, unchanged, and issues one despawn command for
\* the entity of each other entry; no entity is ever named by two despawn
\* commands, and the entities spawned and not despawned are those of the cache.
C24_GarbageCollection ==
    /\ alive_entities = cached_entities(previewer)
    /\ \A e \in DOMAIN preview_log.despawns : preview_log.despawns[e] = 1
    /\ preview_log.last.op = "collect_garbage" =>
           LET before == preview_log.last.before
               touched == preview_log.last.touched
               despawned == preview_log.last.despawned
           IN /\ previewer.epoch = before.epoch + 1
              /\ DOMAIN previewer.cache = touched
              /\ \A k \in touched : previewer.cache[k] = before.cache[k]
              /\ DOMAIN despawned = (DOMAIN before.cache) \ touched
              /\ \A k \in DOMAIN despawned :
                     /\ despawned[k] = before.cache[k].entity
                     /\ despawned[k] \in DOMAIN preview_log.despawns

\* C24's case: a collect_garbage that keeps one entry and despawns another,
\* after an earlier collect_garbage had already despawned an entity.
C24_Witness ==
    /\ preview_log.last.op = "collect_garbage"
    /\ DOMAIN previewer.cache # {}
    /\ DOMAIN preview_log.last.despawned # {}
    /\ Cardinality(DOMAIN preview_log.despawns) >= 2

----------------------------------------------------------------------------
\* Properties of the editor.

\* the outline with point i replaced by p
replaced(o, i, p) == [k \in 1..Len(o) |-> IF k = i THEN p ELSE o[k]]

\* C15: after any sequence of frames every building held by EditorWorld
\* satisfies is_valid with the default options.
C15_StoredBuildingsValid ==
    \A i \in 1..Len(buildings) : is_valid(buildings[i], BuildingValidity_default)

\* an outline drawn clockwise has been closed, reversed and stored
C15_Witness ==
    buildings # <<>> /\ last_frame.closed /\ last_frame.reversed

\* C16: a frame of the select tool that asks for a position giving an invalid
\* outline leaves the buildings as they were, fires no assertion and keeps the
\* drag; a frame that asks for a position giving a valid outline moves the
\* point there.
C16_InvalidDragRejected ==
    [][/\ last_frame'.attempt.kind = "invalid" =>
            /\ buildings' = buildings
            /\ ~panicked'
            /\ dragging' # None
            /\ dragging' = last_frame'.attempt.drag
       /\ last_frame'.attempt.kind = "valid" =>
            LET drag == last_frame'.attempt.drag[1]
            IN /\ ~panicked'
               /\ dragging' = last_frame'.attempt.drag
               /\ buildings' =
                      [buildings EXCEPT ![drag.building_index].outline =
                          replaced(@, drag.point_index, last_frame'.attempt.target[1])]]_vars

\* a point has been moved to a valid position after an earlier position of the
\* same drag was rejected
C16_Witness ==
    last_frame.attempt.kind = "valid" /\ last_frame.rejected_before /\ dragging # None

\* C17: set_building_point panics if and only if the outline with the point
\* replaced fails is_valid with the default options; when it returns, the
\* stored outline is the old one with that point replaced.
C17_SetPointPanicsIffInvalid ==
    (probe.fn = "set_building_point" /\ probe.done) =>
        LET o == replaced(probe.outline, probe.point, probe.p)
        IN /\ probe.outcome.panicked <=> ~is_valid(Building(0, o), BuildingValidity_default)
           /\ ~probe.outcome.panicked =>
                  /\ Len(Result) = 1
                  /\ Result[1].floor_y = 0
                  /\ Len(Result[1].outline) = Len(probe.outline)
                  /\ Result[1].outline[probe.point] = probe.p
                  /\ \A k \in 1..Len(probe.outline) :
                         k # probe.point => Result[1].outline[k] = probe.outline[k]

\* set_building_point has moved a point of an invalid building and returned
C17_Witness ==
    /\ probe.fn = "set_building_point" /\ Returned
    /\ probe.outline[probe.point] # probe.p
    /\ ~is_valid(Building(0, probe.outline), BuildingValidity_default)

\* C30 (as claimed): in the create tool the list of the points placed so far
\* never holds two equal points, and closing an outline never fails an
\* assertion of Building::new. new_point_is_valid accepts every cell while at
\* most one point is placed, the cell of that point included.
C30_DrawnPointsDistinct ==
    AllDistinct(points) /\ ~panicked

====
